---- MODULE Spec2Model ----
(***************************************************************************)
(* Model of libntstm's stream backends (io.cpp, ntstm/io.hpp,              *)
(* ntstm/fdio.hpp, ntstm/bufio.hpp):                                       *)
(*   - NtIoFileStream    full-transfer read/write over a file descriptor,  *)
(*   - NtIoInputBuffer   fixed readable view over a memory region,         *)
(*   - NtIoOutputBuffer  growable writable buffer over std::vector.        *)
(* The three classes share no state: every method touches the fields of    *)
(* its own object only (errno is read by NtIoFileStream alone).  A         *)
(* behaviour therefore follows one object; `stream` names the class the    *)
(* caller constructed.                                                     *)
(***************************************************************************)
EXTENDS Integers, Sequences, FiniteSets, TLC

(***************************************************************************)
(* Bounds of the model.                                                    *)
(***************************************************************************)
\* largest request size handed to NtIoFileStream::read / ::write
MaxSize == 3
\* largest position of the handle (bytes moved through it over its life)
MaxPos == 4
\* longest region an NtIoInputBuffer is constructed over
MaxRegionLen == 5
\* growth-step exponents the caller configures are 0..MaxStepping
MaxStepping == 2
\* largest request handed to NtIoOutputBuffer::write
MaxChunk == 3
\* largest storage the allocator hands out (std::bad_alloc beyond it)
MaxCapacity == 8
\* largest memoryStepping whose capacity computation is traced
MaxExponent == 33
\* width of int in the builds considered (ILP32, LP64, LLP64)
IntBits == 32
\* most values a caller deflates before it inflates them again
MaxValues == 2
\* largest sizeof of a value deflated
MaxValueSize == 2

\* Byte values.  The streams only copy bytes (and std::vector::resize fills
\* with 0), so two values tell every position from its neighbours.
ByteVals == {0, 1}

\* what a caller's buffer holds where no read has stored anything
Stale == Cardinality(ByteVals)

\* largest request handed to NtIoInputBuffer::read: one past the region
MaxReq == MaxRegionLen + 1

RECURSIVE SeqsUpTo(_, _)
\* all sequences over S of length 0..n
SeqsUpTo(S, n) ==
    IF n = 0 THEN {<<>>}
    ELSE LET shorter == SeqsUpTo(S, n - 1)
         IN  shorter \cup {Append(s, x) : s \in {t \in shorter : Len(t) = n - 1}, x \in S}

\* 2^n
RECURSIVE Pow2(_)
Pow2(n) == IF n = 0 THEN 1 ELSE 2 * Pow2(n - 1)

(***************************************************************************)
(* enum NtIoErrorCode (io.hpp).                                            *)
(***************************************************************************)
eioInvalidHandle == 0
eioPermission == 1
eioStreamClosed == 2
eioNonBlocking == 3
eioInterrupted == 4
eioAllocation == 5
eioMalformed == 6
eioMax == 7

\* the codes the library may throw; ioErrorCode of "nothing thrown" is NoCode
NoCode == eioMax + 1

(***************************************************************************)
(* errno values.  "0" is "no error recorded"; ENOSPC stands for the errno  *)
(* values the switch does not name.                                        *)
(***************************************************************************)
Errnos == {"EPERM", "EIO", "EPIPE", "EAGAIN", "EWOULDBLOCK", "EINTR",
           "EBADF", "EINVAL", "EISDIR", "EFAULT", "ENOSPC"}

ErrnoValues == Errnos \cup {"0"}

VARIABLES
    stream,         \* "fd" | "in" | "out": the stream object under use
    \* ---- NtIoFileStream and its environment
    fd,             \* NtIoFileStream::fd, the handle number
    fdOpen,         \* environment: the handle is open and valid
    fdPos,          \* environment: the handle's position
    errno,          \* the thread's errno
    fsCall,         \* "none" | "read" | "write": the call in progress or last made
    fsState,        \* "idle" | "running" | "returned" | "thrown"
    size,           \* parameter size of the call
    readSize,       \* local readSize of read
    writeSize,      \* local writeSize of write
    newSize,        \* local newSize: result of the last ::read / ::write
    fsCode,         \* ioErrorCode of the exception thrown by the call
    attempts,       \* history: underlying attempts issued by the call
    moved,          \* history: bytes the handle moved in the call
    signal,         \* history: failure signal of the call's last attempt
    asked,          \* history: count handed to the call's last ::read / ::write
    offset,         \* history: buffer index handed to the last ::read / ::write
    \* ---- NtIoInputBuffer and its caller
    region,         \* the caller-owned memory the buffer was constructed over
    inBuffer,       \* NtIoInputBuffer::buffer, as an offset into region
    inSize,         \* NtIoInputBuffer::size, the remaining length
    requestBuffer,  \* the caller's buffer handed to read
    inReq,          \* requestSize of the last read
    inState,        \* "idle" | "returned" | "thrown": how the last read ended
    inCode,         \* ioErrorCode of the exception thrown by the last read
    returned,       \* history: the bytes handed out by the reads that returned
    \* ---- NtIoOutputBuffer
    outBuffer,      \* NtIoOutputBuffer::buffer: [elems, cap] of the std::vector
    memoryStepping, \* NtIoOutputBuffer::memoryStepping (public)
    outReq,         \* requestSize of the last write
    outState,       \* "idle" | "returned" | "thrown": how the last write ended
    outCode,        \* ioErrorCode of the exception thrown by the last write
    written,        \* history: the bytes of all writes that returned, in order
    \* ---- a caller that deflates values to an NtIoOutputBuffer and inflates
    \*      them from an NtIoInputBuffer over its content
    rtState,        \* "off" | "deflate" | "inflate" | "extra"
    chunks,         \* sizes of the values deflated and not yet inflated
    \* ---- the capacity computation of NtIoOutputBuffer::write in the
    \*      arithmetic of the build; a number is the set of its 1-bits
    arState,        \* "off" | "entered" | "stepped" | "rounded"
    sizeBits,       \* width of size_t in the build
    arNewSize,      \* size_t newSize
    arStepSize,     \* what stepSize() returned
    arContainerSize \* size_t newContainerSize

fsVars == <<fd, fdOpen, fdPos, errno, fsCall, fsState, size, readSize,
            writeSize, newSize, fsCode, attempts, moved, signal, asked, offset>>

inVars == <<region, inBuffer, inSize, requestBuffer, inReq, inState, inCode,
            returned>>

outVars == <<outBuffer, memoryStepping, outReq, outState, outCode, written>>

rtVars == <<rtState, chunks>>

arVars == <<arState, sizeBits, arNewSize, arStepSize, arContainerSize>>

vars == <<stream, fsVars, inVars, outVars, rtVars, arVars>>

\* newSize before the first attempt of a call
NoResult == 0 - 2

\* mutant: the EPIPE label is missing, so EPIPE takes the default branch
M_ErrnoCheck_PipeUnlisted(e) ==
    CASE e = "EPERM" -> eioPermission
      [] e = "EIO" -> eioStreamClosed
      [] e \in {"EAGAIN", "EWOULDBLOCK"} -> eioNonBlocking
      [] e = "EINTR" -> eioInterrupted
      [] OTHER -> eioInvalidHandle

(***************************************************************************)
(* static void NtIoFileStreamErrnoCheck(): the code thrown for errno = e.  *)
(* Every branch of the switch throws.                                      *)
(***************************************************************************)
NtIoFileStreamErrnoCheck(e) ==
    CASE e = "EPERM" -> eioPermission
      [] e \in {"EIO", "EPIPE"} -> eioStreamClosed
      [] e \in {"EAGAIN", "EWOULDBLOCK"} -> eioNonBlocking
      [] e = "EINTR" -> eioInterrupted
      [] OTHER -> eioInvalidHandle

(***************************************************************************)
(* Loop conditions and loop bodies of NtIoFileStream::read / ::write.      *)
(* A body yields the new byte count and the code thrown (NoCode: none).    *)
(***************************************************************************)
\* mutant: a single ::read per call, as POSIX read does (short counts returned)
M_ReadLoopCond_Once(rs, sz) == rs = 0 /\ sz > 0

ReadLoopCond(rs, sz) == rs < sz

\* mutant: read lacks its end-of-stream branch, as write does
M_ReadBody_ZeroAsErrno(rs, ns, e) ==
    IF ns > 0 THEN [count |-> rs + ns, thrown |-> NoCode]
    ELSE [count |-> rs, thrown |-> NtIoFileStreamErrnoCheck(e)]

ReadBody(rs, ns, e) ==
    IF ns > 0 THEN [count |-> rs + ns, thrown |-> NoCode]
    ELSE IF ns = 0 THEN [count |-> rs, thrown |-> eioStreamClosed]
    ELSE [count |-> rs, thrown |-> NtIoFileStreamErrnoCheck(e)]

\* size - readSize: the count handed to ::read
ReadCount(sz, rs) == sz - rs

\* &byteBuffer[readSize]: the buffer index handed to ::read
ReadOffset(rs) == rs

WriteLoopCond(ws, sz) == ws < sz

\* size - writeSize: the count handed to ::write
WriteCount(sz, ws) == sz - ws

\* &byteBuffer[writeSize]: the buffer index handed to ::write
WriteOffset(ws) == ws

\* mutant: a ::write that moved nothing is issued again
M_WriteBody_RetryZero(ws, ns, e) ==
    IF ns > 0 THEN [count |-> ws + ns, thrown |-> NoCode]
    ELSE IF ns = 0 THEN [count |-> ws, thrown |-> NoCode]
    ELSE [count |-> ws, thrown |-> NtIoFileStreamErrnoCheck(e)]

\* mutant: an interrupted ::write is issued again instead of being thrown
M_WriteBody_RetryInterrupted(ws, ns, e) ==
    IF ns > 0 THEN [count |-> ws + ns, thrown |-> NoCode]
    ELSE IF e = "EINTR" THEN [count |-> ws, thrown |-> NoCode]
    ELSE [count |-> ws, thrown |-> NtIoFileStreamErrnoCheck(e)]

WriteBody(ws, ns, e) ==
    IF ns > 0 THEN [count |-> ws + ns, thrown |-> NoCode]
    ELSE [count |-> ws, thrown |-> NtIoFileStreamErrnoCheck(e)]

(***************************************************************************)
(* ::read(fd, buf, count) / ::write(fd, buf, count): what the platform may *)
(* answer.  A result is [ret, err]: ret in 0..count with errno untouched,  *)
(* or ret = -1 with errno set to err.  A closed or invalid handle answers  *)
(* -1 / EBADF.                                                             *)
(***************************************************************************)
SysResults(count) ==
    IF fdOpen
    THEN {[ret |-> r, err |-> "0"] : r \in 0..count}
         \cup {[ret |-> 0 - 1, err |-> e] : e \in Errnos}
    ELSE {[ret |-> 0 - 1, err |-> "EBADF"]}

\* mutant: readSize keeps its value from the previous call
M_FsRead_KeepCount(n) ==
    /\ stream = "fd"
    /\ fsState # "running"
    /\ fdPos + n =< MaxPos
    /\ fsCall' = "read"
    /\ fsState' = "running"
    /\ size' = n
    /\ newSize' = NoResult
    /\ fsCode' = NoCode
    /\ attempts' = 0
    /\ moved' = 0
    /\ signal' = "0"
    /\ asked' = 0
    /\ offset' = 0
    /\ UNCHANGED <<stream, rtVars, arVars, inVars, outVars, fd, fdOpen, fdPos, errno, readSize, writeSize>>

\* NtIoFileStream::read entered (locals initialised)
FsRead(n) ==
    /\ stream = "fd"
    /\ fsState # "running"
    /\ fdPos + n =< MaxPos
    /\ fsCall' = "read"
    /\ fsState' = "running"
    /\ size' = n
    /\ readSize' = 0
    /\ newSize' = NoResult
    /\ fsCode' = NoCode
    /\ attempts' = 0
    /\ moved' = 0
    /\ signal' = "0"
    /\ asked' = 0
    /\ offset' = 0
    /\ UNCHANGED <<stream, rtVars, arVars, inVars, outVars, fd, fdOpen, fdPos, errno, writeSize>>

\* one iteration of the read loop: ::read and the handling of its result
FsReadAttempt ==
    /\ stream = "fd"
    /\ fsState = "running"
    /\ fsCall = "read"
    /\ ReadLoopCond(readSize, size)
    /\ asked' = ReadCount(size, readSize)
    /\ offset' = ReadOffset(readSize)
    /\ \E res \in SysResults(ReadCount(size, readSize)) :
         LET e == IF res.ret < 0 THEN res.err ELSE errno
             got == IF res.ret > 0 THEN res.ret ELSE 0
             out == ReadBody(readSize, res.ret, e)
         IN  /\ newSize' = res.ret
             /\ errno' = e
             /\ signal' = res.err
             /\ attempts' = attempts + 1
             /\ moved' = moved + got
             /\ fdPos' = fdPos + got
             /\ readSize' = out.count
             /\ fsCode' = out.thrown
             /\ fsState' = IF out.thrown # NoCode THEN "thrown" ELSE "running"
    /\ UNCHANGED <<stream, rtVars, arVars, inVars, outVars, fd, fdOpen, fsCall, size, writeSize>>

\* the read loop's condition fails: read returns normally
FsReadReturn ==
    /\ stream = "fd"
    /\ fsState = "running"
    /\ fsCall = "read"
    /\ ~ReadLoopCond(readSize, size)
    /\ fsState' = "returned"
    /\ UNCHANGED <<stream, rtVars, arVars, inVars, outVars, fd, fdOpen, fdPos, errno, fsCall, size, readSize,
                   writeSize, newSize, fsCode, attempts, moved, signal, asked, offset>>

\* NtIoFileStream::write entered (locals initialised)
FsWrite(n) ==
    /\ stream = "fd"
    /\ fsState # "running"
    /\ fdPos + n =< MaxPos
    /\ fsCall' = "write"
    /\ fsState' = "running"
    /\ size' = n
    /\ writeSize' = 0
    /\ newSize' = NoResult
    /\ fsCode' = NoCode
    /\ attempts' = 0
    /\ moved' = 0
    /\ signal' = "0"
    /\ asked' = 0
    /\ offset' = 0
    /\ UNCHANGED <<stream, rtVars, arVars, inVars, outVars, fd, fdOpen, fdPos, errno, readSize>>

\* one iteration of the write loop: ::write and the handling of its result
FsWriteAttempt ==
    /\ stream = "fd"
    /\ fsState = "running"
    /\ fsCall = "write"
    /\ WriteLoopCond(writeSize, size)
    /\ asked' = WriteCount(size, writeSize)
    /\ offset' = WriteOffset(writeSize)
    /\ \E res \in SysResults(WriteCount(size, writeSize)) :
         LET e == IF res.ret < 0 THEN res.err ELSE errno
             got == IF res.ret > 0 THEN res.ret ELSE 0
             out == WriteBody(writeSize, res.ret, e)
         IN  /\ newSize' = res.ret
             /\ errno' = e
             /\ signal' = res.err
             /\ attempts' = attempts + 1
             /\ moved' = moved + got
             /\ fdPos' = fdPos + got
             /\ writeSize' = out.count
             /\ fsCode' = out.thrown
             /\ fsState' = IF out.thrown # NoCode THEN "thrown" ELSE "running"
    /\ UNCHANGED <<stream, rtVars, arVars, inVars, outVars, fd, fdOpen, fsCall, size, readSize>>

\* the write loop's condition fails: write returns normally
FsWriteReturn ==
    /\ stream = "fd"
    /\ fsState = "running"
    /\ fsCall = "write"
    /\ ~WriteLoopCond(writeSize, size)
    /\ fsState' = "returned"
    /\ UNCHANGED <<stream, rtVars, arVars, inVars, outVars, fd, fdOpen, fdPos, errno, fsCall, size, readSize,
                   writeSize, newSize, fsCode, attempts, moved, signal, asked, offset>>

\* the caller closes the handle (its lifecycle is managed outside the stream)
EnvClose ==
    /\ stream = "fd"
    /\ fsState # "running"
    /\ fdOpen
    /\ fdOpen' = FALSE
    /\ UNCHANGED <<stream, rtVars, arVars, inVars, outVars, fd, fdPos, errno, fsCall, fsState, size, readSize,
                   writeSize, newSize, fsCode, attempts, moved, signal, asked, offset>>

(***************************************************************************)
(* NtIoInputBuffer.                                                        *)
(***************************************************************************)
\* mutant: the copy starts at the head of the region, not at the pointer
M_Memcpy_FromStart(dest, src, off, n) ==
    [i \in 1..Len(dest) |-> IF i =< n THEN src[i] ELSE dest[i]]

\* memcpy(dest, &src[off], n): the first n cells of dest are overwritten
Memcpy(dest, src, off, n) ==
    [i \in 1..Len(dest) |-> IF i =< n THEN src[off + i] ELSE dest[i]]

\* mutant: the bound check is >=, so a request for all that remains is refused
M_InputBufferRead_GuardGeq(mem, buf, sz, dest, requestSize) ==
    IF requestSize >= sz
    THEN [thrown |-> eioStreamClosed, buffer |-> buf, size |-> sz, dest |-> dest]
    ELSE [thrown |-> NoCode,
          buffer |-> buf + requestSize,
          size |-> sz - requestSize,
          dest |-> Memcpy(dest, mem, buf, requestSize)]

\* mutant: a request beyond the end hands over what is left before it throws
M_InputBufferRead_PartialCopy(mem, buf, sz, dest, requestSize) ==
    IF requestSize > sz
    THEN [thrown |-> eioStreamClosed,
          buffer |-> buf + sz,
          size |-> 0,
          dest |-> Memcpy(dest, mem, buf, sz)]
    ELSE [thrown |-> NoCode,
          buffer |-> buf + requestSize,
          size |-> sz - requestSize,
          dest |-> Memcpy(dest, mem, buf, requestSize)]

\* mutant: the pointer is not forwarded after the copy
M_InputBufferRead_NoForward(mem, buf, sz, dest, requestSize) ==
    IF requestSize > sz
    THEN [thrown |-> eioStreamClosed, buffer |-> buf, size |-> sz, dest |-> dest]
    ELSE [thrown |-> NoCode,
          buffer |-> buf,
          size |-> sz - requestSize,
          dest |-> Memcpy(dest, mem, buf, requestSize)]

\* NtIoInputBuffer::read(requestBuffer, requestSize) on fields buffer = buf,
\* size = sz: the code thrown and the fields and caller's buffer afterwards
InputBufferRead(mem, buf, sz, dest, requestSize) ==
    IF requestSize > sz
    THEN [thrown |-> eioStreamClosed, buffer |-> buf, size |-> sz, dest |-> dest]
    ELSE [thrown |-> NoCode,
          buffer |-> buf + requestSize,
          size |-> sz - requestSize,
          dest |-> Memcpy(dest, mem, buf, requestSize)]

\* a call of NtIoInputBuffer::read
InRead(n) ==
    /\ stream = "in"
    /\ LET out == InputBufferRead(region, inBuffer, inSize, requestBuffer, n)
       IN  /\ inBuffer' = out.buffer
           /\ inSize' = out.size
           /\ requestBuffer' = out.dest
           /\ inCode' = out.thrown
           /\ inState' = IF out.thrown # NoCode THEN "thrown" ELSE "returned"
           /\ returned' = IF out.thrown # NoCode THEN returned
                           ELSE returned \o SubSeq(out.dest, 1, n)
    /\ inReq' = n
    /\ UNCHANGED <<stream, rtVars, arVars, fsVars, outVars, region>>

\* NtIoInputBuffer(buffer, size) over the caller's region mem
InConstructed(mem) ==
    /\ region = mem
    /\ inBuffer = 0
    /\ inSize = Len(mem)
    /\ requestBuffer = [i \in 1..MaxReq |-> Stale]
    /\ inReq = 0
    /\ inState = "idle"
    /\ inCode = NoCode
    /\ returned = <<>>

(***************************************************************************)
(* NtIoOutputBuffer.  The std::vector<int8_t> is [elems, cap]: its         *)
(* elements and its capacity.                                              *)
(***************************************************************************)
RECURSIVE BitOr(_, _)
\* a | b on naturals
BitOr(a, b) ==
    IF a = 0 THEN b
    ELSE IF b = 0 THEN a
    ELSE 2 * BitOr(a \div 2, b \div 2) + (IF a % 2 = 1 \/ b % 2 = 1 THEN 1 ELSE 0)

RECURSIVE BitXor(_, _)
\* a ^ b on naturals
BitXor(a, b) ==
    IF a = 0 THEN b
    ELSE IF b = 0 THEN a
    ELSE 2 * BitXor(a \div 2, b \div 2) + (IF a % 2 # b % 2 THEN 1 ELSE 0)

\* NtIoOutputBuffer::stepSize(): 1 << (memoryStepping + 1).  The exponents of
\* this model stay below the width of int, where the shift is 2^(ms + 1).
stepSize(ms) == Pow2(ms + 1)

\* mutant: (newSize | maskStepSize) + 1, a step too many for a newSize that
\* is a multiple of the step
M_NewContainerSize_NextStep(nsz, ms) ==
    LET maskStepSize == stepSize(ms) - 1
    IN  BitOr(nsz, maskStepSize) + 1

\* mutant: (newSize + maskStepSize) ^ maskStepSize, the | left out
M_NewContainerSize_NoOr(nsz, ms) ==
    LET maskStepSize == stepSize(ms) - 1
    IN  BitXor(nsz + maskStepSize, maskStepSize)

\* ((newSize + maskStepSize) | maskStepSize) ^ maskStepSize
NewContainerSize(nsz, ms) ==
    LET maskStepSize == stepSize(ms) - 1
    IN  BitXor(BitOr(nsz + maskStepSize, maskStepSize), maskStepSize)

\* mutant: reserve doubles the capacity when that is more than n
M_VecReserve_Doubling(v, n) ==
    IF n > v.cap
    THEN [elems |-> v.elems, cap |-> IF 2 * v.cap > n THEN 2 * v.cap ELSE n]
    ELSE v

\* buffer.reserve(n) that does not throw: storage of exactly n elements when
\* n exceeds the capacity (libstdc++, libc++ and MSVC allocate n), the
\* elements moved over
VecReserve(v, n) ==
    IF n > v.cap THEN [elems |-> v.elems, cap |-> n] ELSE v

\* buffer.resize(n): elements beyond the old size are value-initialised; a
\* resize past the capacity reallocates by the vector's own growth policy
VecResize(v, n) ==
    LET old == Len(v.elems)
        grown == old + (IF n - old > old THEN n - old ELSE old)
    IN  [elems |-> [i \in 1..n |-> IF i =< old THEN v.elems[i] ELSE 0],
         cap |-> IF n > v.cap THEN grown ELSE v.cap]

\* mutant: the new data is copied to &buffer[0]
M_MemcpyAt_Head(elems, oldSize, req) ==
    [i \in 1..Len(elems) |-> IF i =< Len(req) THEN req[i] ELSE elems[i]]

\* memcpy(&buffer[oldSize], requestBuffer, requestSize)
MemcpyAt(elems, oldSize, req) ==
    [i \in 1..Len(elems) |->
        IF i > oldSize /\ i =< oldSize + Len(req) THEN req[i - oldSize] ELSE elems[i]]

\* whether reserve(n) gets its storage: never above the allocator's limit,
\* and below it only if the allocator has memory left (ok)
Allocates(n, ok) == n =< MaxCapacity /\ ok

\* mutant: the catch clauses throw eioMalformed
M_OutputBufferWrite_CatchMalformed(v, ms, req, ok) ==
    IF Len(req) = 0 THEN [thrown |-> NoCode, buffer |-> v]
    ELSE LET oldSize == Len(v.elems)
             nsz == oldSize + Len(req)
             newContainerSize == NewContainerSize(nsz, ms)
         IN  IF v.cap < newContainerSize /\ ~Allocates(newContainerSize, ok)
             THEN [thrown |-> eioMalformed, buffer |-> v]
             ELSE LET reserved == IF v.cap < newContainerSize
                                  THEN VecReserve(v, newContainerSize)
                                  ELSE v
                      resized == VecResize(reserved, nsz)
                  IN  [thrown |-> NoCode,
                       buffer |-> [elems |-> MemcpyAt(resized.elems, oldSize, req),
                                   cap |-> resized.cap]]

\* mutant: buffer.resize(newContainerSize), so size() counts the padding
M_OutputBufferWrite_ResizeToContainer(v, ms, req, ok) ==
    IF Len(req) = 0 THEN [thrown |-> NoCode, buffer |-> v]
    ELSE LET oldSize == Len(v.elems)
             nsz == oldSize + Len(req)
             newContainerSize == NewContainerSize(nsz, ms)
         IN  IF v.cap < newContainerSize /\ ~Allocates(newContainerSize, ok)
             THEN [thrown |-> eioAllocation, buffer |-> v]
             ELSE LET reserved == IF v.cap < newContainerSize
                                  THEN VecReserve(v, newContainerSize)
                                  ELSE v
                      resized == VecResize(reserved, newContainerSize)
                  IN  [thrown |-> NoCode,
                       buffer |-> [elems |-> MemcpyAt(resized.elems, oldSize, req),
                                   cap |-> resized.cap]]

\* NtIoOutputBuffer::write(requestBuffer, requestSize) on the vector v with
\* memoryStepping = ms: the code thrown and the vector afterwards
OutputBufferWrite(v, ms, req, ok) ==
    IF Len(req) = 0 THEN [thrown |-> NoCode, buffer |-> v]
    ELSE LET oldSize == Len(v.elems)
             nsz == oldSize + Len(req)
             newContainerSize == NewContainerSize(nsz, ms)
         IN  IF v.cap < newContainerSize /\ ~Allocates(newContainerSize, ok)
             THEN [thrown |-> eioAllocation, buffer |-> v]
             ELSE LET reserved == IF v.cap < newContainerSize
                                  THEN VecReserve(v, newContainerSize)
                                  ELSE v
                      resized == VecResize(reserved, nsz)
                  IN  [thrown |-> NoCode,
                       buffer |-> [elems |-> MemcpyAt(resized.elems, oldSize, req),
                                   cap |-> resized.cap]]

\* NtIoOutputBuffer::size()
OutSize == Len(outBuffer.elems)

\* NtIoOutputBuffer::data(), read over size() bytes
OutData == outBuffer.elems

\* a call of NtIoOutputBuffer::write
OutWrite(req, ok) ==
    /\ stream = "out"
    /\ LET out == OutputBufferWrite(outBuffer, memoryStepping, req, ok)
       IN  /\ outBuffer' = out.buffer
           /\ outCode' = out.thrown
           /\ outState' = IF out.thrown # NoCode THEN "thrown" ELSE "returned"
           /\ written' = IF out.thrown # NoCode THEN written ELSE written \o req
    /\ outReq' = Len(req)
    /\ UNCHANGED <<stream, rtVars, arVars, fsVars, inVars, memoryStepping>>

\* the caller assigns the public field memoryStepping between writes
OutSetStepping(ms) ==
    /\ stream = "out"
    /\ ms # memoryStepping
    /\ memoryStepping' = ms
    /\ UNCHANGED <<stream, rtVars, arVars, fsVars, inVars, outBuffer, outReq, outState, outCode, written>>

\* NtIoOutputBuffer(memoryStepping): an empty vector
OutConstructed(ms) ==
    /\ outBuffer = [elems |-> <<>>, cap |-> 0]
    /\ memoryStepping = ms
    /\ outReq = 0
    /\ outState = "idle"
    /\ outCode = NoCode
    /\ written = <<>>

\* NtIoFileStream(int fd): fd stored; no call made yet
FsIdle(h, open, e) ==
    /\ fd = h
    /\ fdOpen = open
    /\ fdPos = 0
    /\ errno = e
    /\ fsCall = "none"
    /\ fsState = "idle"
    /\ size = 0
    /\ readSize = 0
    /\ writeSize = 0
    /\ newSize = NoResult
    /\ fsCode = NoCode
    /\ attempts = 0
    /\ moved = 0
    /\ signal = "0"
    /\ asked = 0
    /\ offset = 0

\* the handles a stream is constructed over (valid and open, valid and
\* closed, not a handle) and the errno the thread has at that time
FsInit ==
    \E h \in {0 - 1, 3}, open \in BOOLEAN, e \in ErrnoValues :
        /\ h < 0 => ~open
        /\ FsIdle(h, open, e)

Steppings == 0..MaxStepping

\* no deflate / inflate round trip is under way
RtOff ==
    /\ rtState = "off"
    /\ chunks = <<>>

\* no capacity computation is traced
ArOff ==
    /\ arState = "off"
    /\ sizeBits = 2 * IntBits
    /\ arNewSize = {}
    /\ arStepSize = {}
    /\ arContainerSize = {}

\* One of the three stream objects is constructed and used; the fields of the
\* other two stay as a default construction leaves them.
Constructed ==
    \/ /\ stream = "fd"
       /\ FsInit
       /\ InConstructed(<<>>)
       /\ OutConstructed(0)
    \/ /\ stream = "in"
       /\ FsIdle(3, TRUE, "0")
       /\ \E mem \in SeqsUpTo(ByteVals, MaxRegionLen) : InConstructed(mem)
       /\ OutConstructed(0)
    \/ /\ stream = "out"
       /\ FsIdle(3, TRUE, "0")
       /\ InConstructed(<<>>)
       /\ \E ms \in Steppings : OutConstructed(ms)

Init == RtOff /\ ArOff /\ Constructed

Next ==
    \/ \E n \in 0..MaxSize : FsRead(n)
    \/ FsReadAttempt
    \/ FsReadReturn
    \/ \E n \in 0..MaxSize : FsWrite(n)
    \/ FsWriteAttempt
    \/ FsWriteReturn
    \/ EnvClose
    \/ \E n \in 0..MaxReq : InRead(n)
    \/ \E req \in SeqsUpTo(ByteVals, MaxChunk), ok \in BOOLEAN : OutWrite(req, ok)
    \/ \E ms \in Steppings : OutSetStepping(ms)

Spec == Init /\ [][Next]_vars

(***************************************************************************)
(* The thread inside read or write keeps running, and every ::read and     *)
(* ::write it issues comes back: a loop iteration that can be taken is     *)
(* taken, and a call whose loop condition fails returns.                   *)
(***************************************************************************)
SpecLive ==
    /\ Init
    /\ [][Next]_vars
    /\ WF_vars(FsReadAttempt)
    /\ WF_vars(FsReadReturn)
    /\ WF_vars(FsWriteAttempt)
    /\ WF_vars(FsWriteReturn)

(***************************************************************************)
(* An NtIoOutputBuffer on its own, with memoryStepping left as constructed *)
(* (OutFixedStep) or reassigned between writes (OutOnly).                  *)
(***************************************************************************)
OutInit == stream = "out" /\ Init

OutFixedStepNext ==
    \E req \in SeqsUpTo(ByteVals, MaxChunk), ok \in BOOLEAN : OutWrite(req, ok)

SpecOutFixedStep == OutInit /\ [][OutFixedStepNext]_vars

OutNext ==
    \/ \E req \in SeqsUpTo(ByteVals, MaxChunk), ok \in BOOLEAN : OutWrite(req, ok)
    \/ \E ms \in Steppings : OutSetStepping(ms)

SpecOut == OutInit /\ [][OutNext]_vars

(***************************************************************************)
(* A caller of both memory streams: values are deflated to an              *)
(* NtIoOutputBuffer through NtIoOutputStream::write(const T&), an           *)
(* NtIoInputBuffer is constructed over data() and size(), and the values   *)
(* are inflated through NtIoInputStream::read(T&) in the same order.       *)
(***************************************************************************)
\* write(&t, sizeof(T)) of one value on the output buffer
RtDeflate(val, ok) ==
    /\ rtState = "deflate"
    /\ Len(chunks) < MaxValues
    /\ LET out == OutputBufferWrite(outBuffer, memoryStepping, val, ok)
       IN  /\ outBuffer' = out.buffer
           /\ outCode' = out.thrown
           /\ outState' = IF out.thrown # NoCode THEN "thrown" ELSE "returned"
           /\ written' = IF out.thrown # NoCode THEN written ELSE written \o val
           /\ chunks' = IF out.thrown # NoCode THEN chunks
                         ELSE Append(chunks, Len(val))
    /\ outReq' = Len(val)
    /\ UNCHANGED <<arVars, stream, rtState, fsVars, inVars, memoryStepping>>

\* NtIoInputBuffer(out.data(), out.size())
RtOpen ==
    /\ rtState = "deflate"
    /\ stream' = "in"
    /\ rtState' = "inflate"
    /\ region' = SubSeq(OutData, 1, OutSize)
    /\ inBuffer' = 0
    /\ inSize' = OutSize
    /\ inReq' = 0
    /\ inState' = "idle"
    /\ inCode' = NoCode
    /\ returned' = <<>>
    /\ UNCHANGED <<arVars, chunks, fsVars, outVars, requestBuffer>>

\* read(&t, sizeof(T)) of the next value on the input buffer
RtInflate ==
    /\ rtState = "inflate"
    /\ chunks # <<>>
    /\ LET n == Head(chunks)
           out == InputBufferRead(region, inBuffer, inSize, requestBuffer, n)
       IN  /\ inBuffer' = out.buffer
           /\ inSize' = out.size
           /\ requestBuffer' = out.dest
           /\ inCode' = out.thrown
           /\ inState' = IF out.thrown # NoCode THEN "thrown" ELSE "returned"
           /\ returned' = IF out.thrown # NoCode THEN returned
                           ELSE returned \o SubSeq(out.dest, 1, n)
           /\ inReq' = n
           /\ chunks' = IF out.thrown # NoCode THEN chunks ELSE Tail(chunks)
    /\ UNCHANGED <<arVars, stream, rtState, fsVars, outVars, region>>

\* one more read, of n > 0 bytes, after the last value was inflated
RtExtra(n) ==
    /\ rtState \in {"inflate", "extra"}
    /\ chunks = <<>>
    /\ rtState' = "extra"
    /\ LET out == InputBufferRead(region, inBuffer, inSize, requestBuffer, n)
       IN  /\ inBuffer' = out.buffer
           /\ inSize' = out.size
           /\ requestBuffer' = out.dest
           /\ inCode' = out.thrown
           /\ inState' = IF out.thrown # NoCode THEN "thrown" ELSE "returned"
           /\ returned' = IF out.thrown # NoCode THEN returned
                           ELSE returned \o SubSeq(out.dest, 1, n)
           /\ inReq' = n
    /\ UNCHANGED <<arVars, stream, chunks, fsVars, outVars, region>>

\* the caller holds a fresh NtIoOutputBuffer
RtInit ==
    /\ stream = "out"
    /\ ArOff
    /\ rtState = "deflate"
    /\ chunks = <<>>
    /\ FsIdle(3, TRUE, "0")
    /\ InConstructed(<<>>)
    /\ \E ms \in Steppings : OutConstructed(ms)

RtNext ==
    \/ \E val \in SeqsUpTo(ByteVals, MaxValueSize), ok \in BOOLEAN : RtDeflate(val, ok)
    \/ RtOpen
    \/ RtInflate
    \/ \E n \in 1..(MaxValueSize + 1) : RtExtra(n)

SpecRoundTrip == RtInit /\ [][RtNext]_vars

(***************************************************************************)
(* The capacity computation of NtIoOutputBuffer::write in the arithmetic   *)
(* of the build.  A number is the set of the positions of its 1-bits: an   *)
(* int has positions 0..IntBits-1 (two's complement, IntBits-1 the sign),  *)
(* a size_t positions 0..sizeBits-1.                                       *)
(***************************************************************************)
\* 1 << count in int.  Below the sign bit the result is 2^count.  A count of
\* IntBits-1 sets the sign bit (INT_MIN).  A count of IntBits or more is
\* undefined: the builds in use either take the count modulo the width
\* (x86 shl) or shift every bit out (ARM lsl).
ShiftLeftOne(count) ==
    IF count < IntBits - 1 THEN {{count}}
    ELSE IF count = IntBits - 1 THEN {{IntBits - 1}}
    ELSE {{count % IntBits}, {}}

\* conversion of the int to the size_t returned: a negative int is sign
\* extended to the width w
IntToSize(x, w) ==
    IF (IntBits - 1) \in x THEN x \cup (IntBits..(w - 1)) ELSE x

\* a - 1 in a size_t of width w
BitsDec(a, w) ==
    IF a = {} THEN 0..(w - 1)
    ELSE LET low == CHOOSE i \in a : \A j \in a : i =< j
         IN  (a \ {low}) \cup (0..(low - 1))

RECURSIVE BitsAddFrom(_, _, _, _, _)
\* the bits from position i on of a + b + carry in a size_t of width w
BitsAddFrom(a, b, i, carry, w) ==
    IF i >= w THEN {}
    ELSE LET sum == (IF i \in a THEN 1 ELSE 0) + (IF i \in b THEN 1 ELSE 0) + carry
         IN  (IF sum % 2 = 1 THEN {i} ELSE {})
                 \cup BitsAddFrom(a, b, i + 1, sum \div 2, w)

\* a + b in a size_t of width w (wraps)
BitsAdd(a, b, w) == BitsAddFrom(a, b, 0, 0, w)

\* a | b
BitsOr(a, b) == a \cup b

\* a ^ b
BitsXor(a, b) == (a \ b) \cup (b \ a)

\* ((newSize + maskStepSize) | maskStepSize) ^ maskStepSize with
\* maskStepSize = stepSize() - 1, on size_t of width w
MachineContainerSize(nsz, step, w) ==
    LET maskStepSize == BitsDec(step, w)
    IN  BitsXor(BitsOr(BitsAdd(nsz, maskStepSize, w), maskStepSize), maskStepSize)

\* values of newSize traced: 2^i, 2^i + 1 and 2^(i+1) - 1 (SIZE_MAX among them)
NewSizes(w) ==
    {{i} : i \in 0..(w - 1)} \cup {{0, i} : i \in 0..(w - 1)}
        \cup {0..i : i \in 0..(w - 1)}

\* write has computed newSize; the buffer was constructed with memoryStepping
ArInit ==
    /\ stream = "out"
    /\ RtOff
    /\ FsIdle(3, TRUE, "0")
    /\ InConstructed(<<>>)
    /\ \E ms \in 0..MaxExponent : OutConstructed(ms)
    /\ arState = "entered"
    /\ sizeBits \in {IntBits, 2 * IntBits}
    /\ arNewSize \in NewSizes(sizeBits)
    /\ arStepSize = {}
    /\ arContainerSize = {}

\* stepSize(): return 1 << (memoryStepping + 1)
ArStepSize ==
    /\ arState = "entered"
    /\ arState' = "stepped"
    /\ \E r \in ShiftLeftOne(memoryStepping + 1) :
          arStepSize' = IntToSize(r, sizeBits)
    /\ UNCHANGED <<stream, rtVars, fsVars, inVars, outVars, sizeBits, arNewSize,
                   arContainerSize>>

\* maskStepSize and newContainerSize
ArContainerSize ==
    /\ arState = "stepped"
    /\ arState' = "rounded"
    /\ arContainerSize' = MachineContainerSize(arNewSize, arStepSize, sizeBits)
    /\ UNCHANGED <<stream, rtVars, fsVars, inVars, outVars, sizeBits, arNewSize,
                   arStepSize>>

ArNext == ArStepSize \/ ArContainerSize

SpecArith == ArInit /\ [][ArNext]_vars

(***************************************************************************)
(* Properties.                                                             *)
(***************************************************************************)
\* the step issues an underlying ::read / ::write
AttemptStep == attempts' = attempts + 1

\* C1: a call of NtIoFileStream::read / ::write returns normally only when
\* the bytes its attempts moved sum to exactly size; a call that ends in any
\* other way has thrown, with fewer than size bytes moved.
C1_FullTransfer ==
    /\ fsState = "returned" => moved = size
    /\ fsState = "thrown" => (moved < size /\ fsCode # NoCode)
    /\ moved =< size

C1_Witness ==
    /\ fsState = "returned"
    /\ fsCall = "read"
    /\ size = MaxSize
    /\ attempts = MaxSize

\* C2: in read, an attempt that returns 0 ends the call at once with
\* eioStreamClosed, whatever was moved before, and no further attempt follows
\* it in that call.
C2_ReadZeroStreamClosed ==
    [][ /\ (fsCall' = "read" /\ AttemptStep /\ newSize' = 0)
            => (fsState' = "thrown" /\ fsCode' = eioStreamClosed)
        /\ (fsCall = "read" /\ newSize = 0) => ~AttemptStep ]_vars

C2_Witness ==
    /\ fsCall = "read"
    /\ fsState = "thrown"
    /\ newSize = 0
    /\ fsCode = eioStreamClosed
    /\ size = MaxSize
    /\ readSize = MaxSize - 1

\* the table of the error model: failure signal -> error kind
ClaimedKind(sig) ==
    IF sig = "EPERM" THEN eioPermission
    ELSE IF sig = "EIO" \/ sig = "EPIPE" THEN eioStreamClosed
    ELSE IF sig = "EAGAIN" \/ sig = "EWOULDBLOCK" THEN eioNonBlocking
    ELSE IF sig = "EINTR" THEN eioInterrupted
    ELSE eioInvalidHandle

C4_NoRetryPastError ==
    [][ /\ (AttemptStep /\ newSize' < 0)
            => /\ fsState' = "thrown"
               /\ fsCode' # NoCode
               /\ signal' = "EINTR" => fsCode' = eioInterrupted
        /\ AttemptStep
            => /\ fsState = "running"
               /\ attempts > 0 => (newSize > 0 /\ moved < size) ]_vars

C4_Witness ==
    /\ fsState = "thrown"
    /\ signal = "EINTR"
    /\ fsCode = eioInterrupted
    /\ attempts = 2

\* C5: write throws only after an attempt that reported a failure signal,
\* and then the kind of that signal; a zero result never makes it throw.
C5_WriteZeroNotFailure ==
    (fsCall = "write" /\ fsState = "thrown")
        => (newSize < 0 /\ fsCode = ClaimedKind(signal))

\* C6: a zero-size request is a successful no-op on every backend: a file
\* stream call of size 0 issues no attempt, moves nothing and returns (also
\* on a closed or invalid handle); NtIoInputBuffer::read of size 0 returns
\* and leaves pointer, remaining length and the caller's buffer alone;
\* NtIoOutputBuffer::write of size 0 returns and leaves the vector alone.
C6_ZeroSizeNoOp ==
    [][ /\ (fsState = "running" /\ size = 0)
            => /\ attempts = 0
               /\ fsState' = "returned"
               /\ UNCHANGED <<fd, fdOpen, fdPos, errno, attempts, moved, fsCode>>
        /\ InRead(0)
            => /\ inState' = "returned"
               /\ UNCHANGED <<region, inBuffer, inSize, requestBuffer>>
        /\ (\E ok \in BOOLEAN : OutWrite(<<>>, ok))
            => /\ outState' = "returned"
               /\ UNCHANGED <<outBuffer, memoryStepping, written>> ]_vars

C6_Witness ==
    /\ stream = "in"
    /\ inState = "returned"
    /\ inReq = 0
    /\ inSize = 0
    /\ Len(region) > 0

\* C7: NtIoInputBuffer::read of more than the remaining length throws
\* eioStreamClosed and changes nothing: the caller's buffer, the pointer and
\* the remaining length are as before.
C7_OverReadAtomic ==
    [][ \A n \in 0..MaxReq :
          (InRead(n) /\ n > inSize)
            => /\ inState' = "thrown"
               /\ inCode' = eioStreamClosed
               /\ UNCHANGED <<region, inBuffer, inSize, requestBuffer>> ]_vars

C7_Witness ==
    /\ stream = "in"
    /\ inState = "thrown"
    /\ Len(region) = MaxRegionLen
    /\ inReq = MaxReq
    /\ inSize = MaxRegionLen
    /\ inBuffer = 0

\* C8: NtIoInputBuffer::read of at most the remaining length returns, stores
\* the next n bytes of the region (from the current pointer) in the caller's
\* buffer, forwards the pointer by n and reduces the remaining length by n.
C8_ReadWithinBounds ==
    [][ \A n \in 0..MaxReq :
          (InRead(n) /\ n =< inSize)
            => /\ inState' = "returned"
               /\ inCode' = NoCode
               /\ inBuffer' = inBuffer + n
               /\ inSize' = inSize - n
               /\ \A i \in 1..MaxReq :
                    requestBuffer'[i] = IF i =< n THEN region[inBuffer + i]
                                        ELSE requestBuffer[i] ]_vars

C8_Witness ==
    /\ stream = "in"
    /\ inState = "returned"
    /\ inReq = 2
    /\ inSize = 0
    /\ Len(region) = 4
    /\ inBuffer = 4
    /\ requestBuffer[1] = region[3]
    /\ requestBuffer[2] = region[4]
    /\ region[3] # region[1]
    /\ region[4] # region[2]

\* C9: after any writes, size() is the sum of the sizes of the writes that
\* returned, the capacity is at least size(), and the capacity is a multiple
\* of 2^(memoryStepping + 1) for the memoryStepping now configured.
C9_LengthCapacityStep ==
    outState # "idle"
        => /\ OutSize = Len(written)
           /\ outBuffer.cap >= OutSize
           /\ outBuffer.cap % Pow2(memoryStepping + 1) = 0

\* C10: data() over size() bytes is the concatenation, in order, of the
\* chunks written, however the bytes were split into calls and across every
\* growth of the storage.
C10_ContentRoundTrip == OutData = written

C10_Witness ==
    /\ stream = "out"
    /\ memoryStepping = 0
    /\ outBuffer.cap = MaxCapacity
    /\ Len(written) = MaxCapacity - 1
    /\ written[1] # written[2]
    /\ written[6] # written[7]

RECURSIVE SumOf(_)
\* the sum of a sequence of sizes
SumOf(q) == IF q = <<>> THEN 0 ELSE Head(q) + SumOf(Tail(q))

\* C11: values deflated to an NtIoOutputBuffer and read back, with the same
\* sizes in the same order, from an NtIoInputBuffer over data() / size():
\* every read returns, the bytes handed out are the bytes written in order,
\* the remaining length ends at 0, and one more read of a positive size
\* throws eioStreamClosed.
C11_RoundTrip ==
    /\ rtState = "inflate"
        => /\ inState # "thrown"
           /\ Len(returned) + SumOf(chunks) = Len(written)
           /\ returned = SubSeq(written, 1, Len(returned))
           /\ inSize = SumOf(chunks)
    /\ rtState = "extra"
        => /\ inState = "thrown"
           /\ inCode = eioStreamClosed
           /\ inSize = 0
           /\ returned = written

C11_Witness ==
    /\ rtState = "extra"
    /\ memoryStepping = 0
    /\ outBuffer.cap = MaxValues * MaxValueSize
    /\ Len(returned) = MaxValues * MaxValueSize
    /\ returned[1] # returned[2]

\* n rounded up to a multiple of step, by division
RoundUpTo(n, step) == ((n + step - 1) \div step) * step

\* the capacity a write of k more bytes asks for
Target(k) == RoundUpTo(Len(outBuffer.elems) + k, Pow2(memoryStepping + 1))

\* the request of a write step: a write that returns appended it to the
\* content; a write that throws never read it (memcpy follows the reserve),
\* so any request of the size asked stands for it
Request ==
    IF outState' = "thrown" THEN [i \in 1..outReq' |-> 0]
    ELSE SubSeq(written', Len(written) + 1, Len(written'))

\* C12: a write whose growth fails throws eioAllocation and leaves content,
\* length and capacity as they were; write throws no other kind, and throws
\* only when growth was needed; a write (also one after a failure) that the
\* capacity already holds, or whose growth the allocator grants, returns
\* with the bytes appended.
C12_GrowthFailure ==
    [][\A ok \in BOOLEAN :
        LET req == Request
        IN  OutWrite(req, ok) =>
          /\ outCode' \in {NoCode, eioAllocation}
          /\ outState' = "thrown"
              => /\ outCode' = eioAllocation
                 /\ outBuffer' = outBuffer
                 /\ written' = written
                 /\ outBuffer.cap < Target(Len(req))
          /\ (outBuffer.cap >= Target(Len(req)) \/ Allocates(Target(Len(req)), ok))
              => /\ outState' = "returned"
                 /\ outCode' = NoCode
                 /\ written' = written \o req
                 /\ Len(outBuffer'.elems) = Len(outBuffer.elems) + Len(req)]_vars

C12_Witness ==
    /\ outState = "thrown"
    /\ outCode = eioAllocation
    /\ Len(written) > 0
    /\ outBuffer.cap > Len(written)
    /\ OutData = written

\* the step size the documentation gives for the exponent in force
Step == Pow2(memoryStepping + 1)

\* C13 as stated: from construction on and after any writes the capacity is
\* 2^k * stepSize for some k >= 0, and at least the content length.
C13_PowerOfTwoMultiple ==
    /\ \E k \in 0..MaxCapacity : outBuffer.cap = Pow2(k) * Step
    /\ outBuffer.cap >= Len(outBuffer.elems)

\* C13 amended: with memoryStepping as constructed, the capacity is 0 until
\* the first byte is accepted and from then on a positive whole multiple of
\* stepSize (any multiple, not only a power-of-two one), and always at least
\* the content length.
C13_CapacityMultiple ==
    /\ outBuffer.cap >= Len(outBuffer.elems)
    /\ outBuffer.cap % Step = 0
    /\ outBuffer.cap = 0 <=> written = <<>>

C13_Witness ==
    /\ outBuffer.cap = 3 * Step
    /\ Len(outBuffer.elems) > 2 * Step
    /\ outState = "returned"

\* C14 as stated: a write that grows the storage from a capacity C > 0
\* leaves a capacity of at least 2 * C.
C14_GeometricGrowth ==
    [][(outBuffer.cap > 0 /\ outBuffer'.cap # outBuffer.cap)
        => outBuffer'.cap >= 2 * outBuffer.cap]_vars

\* C14 amended: a write that grows the storage from a capacity C leaves
\* exactly the new content length rounded up to a multiple of stepSize; that
\* is more than C by a whole number of steps, at least one, and by no more
\* than the request rounded up, so growth is linear in the bytes written.
C14_LinearGrowth ==
    [][outBuffer'.cap # outBuffer.cap
        => /\ outState' = "returned"
           /\ outBuffer'.cap = RoundUpTo(Len(outBuffer'.elems), Step)
           /\ outBuffer'.cap >= outBuffer.cap + Step
           /\ (outBuffer'.cap - outBuffer.cap) % Step = 0
           /\ outBuffer'.cap - outBuffer.cap =< RoundUpTo(outReq', Step)]_vars

C14_Witness ==
    /\ outState = "returned"
    /\ outReq = 1
    /\ Len(outBuffer.elems) = 2 * Step + 1
    /\ outBuffer.cap = 3 * Step

\* C15: a read or write of NtIoFileStream whose attempt fails with EFAULT
\* throws eioAllocation, as the documentation of that code says.
C15_FaultIsAllocation ==
    signal = "EFAULT" => (fsState = "thrown" /\ fsCode = eioAllocation)

\* the documented example: exponent 5, writes of 10, 50 and 10 bytes ask for
\* capacities 64, 64 and 128; a total of 64 bytes asks for 64
ExampleDefault ==
    /\ NewContainerSize(10, 5) = 64
    /\ NewContainerSize(10 + 50, 5) = 64
    /\ NewContainerSize(10 + 50 + 10, 5) = 128
    /\ NewContainerSize(64, 5) = 64

\* C16: with memoryStepping as constructed, a write that finds the capacity
\* below the new length rounded up to a multiple of 2^(memoryStepping + 1)
\* grows it to exactly that, a write that finds it at or above leaves it;
\* so once T > 0 bytes are written the capacity is T rounded up, whatever
\* the chunking, and the capacity never decreases.
C16_ExactCapacity ==
    [][LET target == RoundUpTo(Len(outBuffer.elems) + outReq', Step)
       IN  /\ ExampleDefault
           /\ outState' = "returned"
               => outBuffer'.cap = IF outBuffer.cap < target THEN target
                                   ELSE outBuffer.cap
           /\ outState' = "thrown"
               => outBuffer.cap < target /\ outBuffer'.cap = outBuffer.cap
           /\ outBuffer'.cap >= outBuffer.cap
           /\ Len(written') > 0
               => outBuffer'.cap = RoundUpTo(Len(written'), Step)]_vars

C16_Witness ==
    /\ memoryStepping = 1
    /\ outState = "returned"
    /\ outReq = 1
    /\ Len(written) = Step + 1
    /\ outBuffer.cap = 2 * Step

\* the byte count the call in progress keeps
Count == IF fsCall = "read" THEN readSize ELSE writeSize

\* C17: the handle number never changes; the handle's position moves only
\* forward, by what each attempt moved, so a call that throws after moving
\* k bytes leaves it advanced by k; after a call has thrown the next call
\* is accepted like any other, starts at the position reached with a count
\* of 0, and its first attempt asks for the whole of its size at offset 0.
C17_NoRollbackNoSticky ==
    [][/\ fd' = fd
       /\ fdPos' - fdPos = IF fsState = "running" THEN moved' - moved ELSE 0
       /\ fdPos' >= fdPos
       /\ fsState' = "thrown" => fdPos' >= moved'
       /\ fsState = "thrown"
           => \A n \in 0..MaxSize :
                fdPos + n =< MaxPos => ENABLED FsRead(n) /\ ENABLED FsWrite(n)
       /\ (fsState # "running" /\ fsState' = "running")
           => /\ fdPos' = fdPos
              /\ Count' = 0
              /\ attempts' = 0
       /\ (fsState = "running" /\ attempts = 0 /\ attempts' = 1)
           => /\ Count = 0
              /\ offset' = 0
              /\ asked' = size]_vars

C17_Witness ==
    /\ fsState = "thrown"
    /\ attempts > 1
    /\ moved > 0
    /\ moved < size
    /\ fdPos > moved

\* C18: over any sequence of reads of an NtIoInputBuffer, returning or
\* throwing: the remaining length never grows and never exceeds the length
\* of the region; consumed plus remaining is the length of the region; the
\* pointer never passes the end; the region is not written; and the bytes
\* handed out by the reads that returned are, in call order, exactly the
\* first bytes of the region up to the pointer.
C18_InputBufferInvariant ==
    /\ inBuffer = 0
    /\ inSize = Len(region)
    /\ returned = <<>>
    /\ [][/\ inSize' =< inSize
          /\ inSize' =< Len(region)
          /\ inBuffer' >= inBuffer
          /\ inBuffer' + inSize' = Len(region)
          /\ inBuffer' =< Len(region)
          /\ region' = region
          /\ returned' = SubSeq(region, 1, inBuffer')
          /\ inState' = "thrown" => (inBuffer' = inBuffer /\ returned' = returned)]_vars

C18_Witness ==
    /\ inState = "thrown"
    /\ Len(region) = MaxRegionLen
    /\ inBuffer = Len(region)
    /\ inSize = 0
    /\ returned = region
    /\ \E i \in 1..Len(region) : region[i] # region[1]

\* C19: a call of read or write for N bytes issues at most N attempts and
\* ends (returns or throws) provided every attempt comes back; every attempt
\* asks for N less the bytes moved so far, at the offset of the bytes moved
\* so far; an attempt after which the loop goes on has moved at least one
\* byte, and the bytes moved never exceed N.  A ::write that moves nothing
\* ends the call, so the write loop does not spin on zero results.
C19_Termination ==
    /\ [](attempts =< size /\ moved =< size)
    /\ [](fsState = "running" => (attempts =< moved /\ Count = moved))
    /\ [][attempts' # attempts /\ fsState = "running"
          => /\ attempts' = attempts + 1
             /\ asked' = size - moved
             /\ offset' = moved
             /\ newSize' \in (0 - 1)..asked'
             /\ fsState' = "running" => moved' > moved
             /\ newSize' =< 0 => fsState' = "thrown"]_vars
    /\ (fsState = "running") ~> (fsState \in {"returned", "thrown"})

C19_Witness ==
    /\ fsCall = "write"
    /\ fsState = "returned"
    /\ size = MaxSize
    /\ attempts = size
    /\ moved = size

\* the smallest multiple of 2^k that is >= n, over the unbounded naturals
SmallestMultiple(n, k) ==
    LET low == {i \in n : i < k}
        high == n \ low
        j == CHOOSE c \in k..(k + 2 * IntBits) :
                 c \notin high /\ \A i \in k..(c - 1) : i \in high
    IN  IF low = {} THEN n ELSE {i \in high : i > j} \cup {j}

\* C20: in the arithmetic of the build, for every memoryStepping stepSize()
\* is 2^(memoryStepping + 1), and the bit-mask rounding gives the smallest
\* multiple of it that is >= newSize, also for large exponents and for
\* lengths near the limit of size_t.
C20_MachineRounding ==
    /\ arState \in {"stepped", "rounded"}
        => arStepSize = {memoryStepping + 1}
    /\ arState = "rounded"
        => arContainerSize = SmallestMultiple(arNewSize, memoryStepping + 1)

====
